---- MODULE Spec2Model ----
(***************************************************************************)
(* Authentication handlers of passwall-server (internal/api/auth.go):      *)
(* CreateCode, CreateDeleteCode, VerifyCode, Signup, Signin, RefreshToken, *)
(* RecoverDelete and CheckToken, over the process-wide verification cache  *)
(* and the user store.                                                     *)
(***************************************************************************)
EXTENDS Integers, Sequences, FiniteSets, TLC

(* ------------------------------ bounds --------------------------------- *)

\* Largest value of the clock.
MaxTime == 2

\* Largest user ID the store hands out.
MaxUsers == 2

\* Number of requests handled at the same time.
NumWorkers == 2

(* --------------------------- program constants ------------------------- *)

\* auth.go:58 / auth.go:106
min == 100000

\* auth.go:59 / auth.go:107
max == 999999

\* Default expiration of the verification cache, in clock ticks.
TTL == 2

\* Lifetime of an access token, in clock ticks.
AccessTTL == 2

Emails == {"a@x.com", "b@x.com"}

\* The master passwords accounts are registered with.
Passwords == {"pw1"}

(* ------------------------------ strings -------------------------------- *)
\* A Go string that is compared or formatted is a sequence of characters.

Digits == <<"0", "1", "2", "3", "4", "5", "6", "7", "8", "9">>

DigitSet == {Digits[i] : i \in 1..10}

\* strconv.Itoa for n >= 0: the decimal digits of n, most significant first.
RECURSIVE Itoa(_)
Itoa(n) ==
    IF n < 10 THEN <<Digits[n + 1]>>
    ELSE Append(Itoa(n \div 10), Digits[(n % 10) + 1])

\* The literal "verified" (auth.go:157, auth.go:461).
verified == <<"v", "e", "r", "i", "f", "i", "e", "d">>

\* rand.Intn(n): an integer of [0, n); the model draws the two ends.
Intn(n) == {0, n - 1}

\* The response messages of auth.go:23-33 and those written inline.
userLoginErr == "User email or master password is wrong."

invalidUser == "Invalid user"

invalidToken == "Token is expired or not valid!"

noToken == "Token could not found! "

tokenCreateErr == "Token could not be created"

signupSuccess == "User created successfully"

verifySuccess == "Email verified successfully"

codeSuccess == "Code created successfully"

InvalidRequestPayload == "InvalidRequestPayload"

InvalidJSON == "InvalidJSON"

(* ------------------------------- state --------------------------------- *)

VARIABLES
    c,        \* the verification cache: email -> [val, exp], a partial map
    users,    \* the user store: a set of [id, email, pw]
    nextID,   \* the next ID the store hands out
    now,      \* the clock
    resp,     \* the request just handled, its response and its calls out
    procs     \* the requests in flight, one per worker, when handlers interleave

vars == <<c, users, nextID, now, resp, procs>>

NoToken == [uuid |-> 0, exp |-> 0]

\* A request that wrote nothing and called nothing. Besides the response
\* (status, msg, tier, token, tkey) the record keeps what the handler did:
\* mail (app.SendMail), sub (the subscription lookup), issue (token
\* creation), ulookup (a user lookup by credentials or UUID), store (a write
\* to the user store) and old (the live cache value its c.Set replaced).
Blank ==
    [op |-> "none", email |-> "", code |-> <<>>, status |-> 0, msg |-> "",
     mail |-> "none", sub |-> "none", tier |-> "", issue |-> "none",
     token |-> NoToken, tkey |-> FALSE, ulookup |-> FALSE,
     store |-> "none", old |-> <<>>]

Workers == 1..NumWorkers

\* A worker that has not taken a request. pc is the handler's position, got
\* the value its c.Get returned, wrote the rank of its c.Set among the c.Set
\* calls of all workers (0: none yet), r the request record as in resp.
IdleProc == [pc |-> "idle", got |-> <<>>, wrote |-> 0, r |-> Blank]

Idle == [w \in Workers |-> IdleProc]

(* ------------------------ the verification cache ----------------------- *)

\* c.Set(k, v, cache.DefaultExpiration): insert or overwrite, TTL restarts.
Set(k, v) ==
    [x \in (DOMAIN c) \cup {k} |->
        IF x = k THEN [val |-> v, exp |-> now + TTL] ELSE c[x]]

\* c.Get(k): found only while the entry has not lapsed.
Found(k) == k \in DOMAIN c /\ now < c[k].exp

\* The live value under k, <<>> when c.Get(k) finds none.
Live(k) == IF Found(k) THEN c[k].val ELSE <<>>

\* code.(string): the cache only ever holds strings.
IsString(v) == DOMAIN v = 1..Len(v)

(* ---------------------------- the user store --------------------------- *)

\* s.Users().FindByEmail(email): err == nil iff some user has the email.
FindByEmail(email) == {u \in users : u.email = email}

\* app.CreateUser(s, userDTO): the record the store adds.
CreateUser(payload) == [id |-> nextID, email |-> payload.email, pw |-> payload.pw]

\* s.Users().Delete(id, schema): the store without the user of that ID.
Delete(id) == {u \in users : u.id # id}

\* s.Users().FindByCredentials(email, pw): the user with that email and password.
FindByCredentials(email, pw) == {u \in users : u.email = email /\ u.pw = pw}

\* s.Users().FindByUUID(uuid): the user with that UUID (the model's user ID).
FindByUUID(uuid) == {u \in users : u.id = uuid}

(* ------------------------------- tokens -------------------------------- *)
\* A token string is a piece of text: a signed JWT with its claims, or
\* a word that is no JWT at all.

Word == [kind |-> "word"]

SP == [kind |-> "space"]

\* Expiry times of the tokens a client presents: one that lapses while the
\* clock runs and one that outlives it.
TokenExpiries == {AccessTTL, MaxTime + AccessTTL}

JWTs == [kind : {"jwt"}, sigok : BOOLEAN, uuid : 1..MaxUsers, exp : TokenExpiries]

TokenStrings == JWTs \cup {Word}

NilErr == [type |-> "nil", flags |-> {}]

\* jwt.ErrSignatureInvalid, the package's sentinel error value.
ErrSignatureInvalid == [type |-> "errorString", flags |-> {"signature is invalid"}]

\* The claims' expiry check.
Expired(tok) == ~(now < tok.exp)

\* A parse that decodes the claims without verifying the signature.
ParseWithClaims_Unverified(tknStr) ==
    IF tknStr.kind # "jwt" THEN [type |-> "ValidationError", flags |-> {"malformed"}]
    ELSE IF Expired(tknStr) THEN [type |-> "ValidationError", flags |-> {"expired"}]
    ELSE NilErr

\* jwt.ParseWithClaims(tknStr, claims, keyFunc): nil, or a *ValidationError
\* carrying what failed.
ParseWithClaims(tknStr) ==
    IF tknStr.kind # "jwt" THEN [type |-> "ValidationError", flags |-> {"malformed"}]
    ELSE LET flags == (IF Expired(tknStr) THEN {"expired"} ELSE {})
                        \cup (IF ~tknStr.sigok THEN {"signature"} ELSE {})
         IN IF flags = {} THEN NilErr
            ELSE [type |-> "ValidationError", flags |-> flags]

\* app.CreateToken(user): the claims of the token it signs.
CreateToken(user) == [uuid |-> user.id, exp |-> now + AccessTTL]

\* app.RefreshTokenWithClaims(user, claims): the claims of the new token.
RefreshTokenWithClaims(user, claims) == [uuid |-> user.id, exp |-> now + AccessTTL]

\* strings.Fields(s): the pieces of s between runs of spaces.
RECURSIVE Split_Fields(_)
Split_Fields(s) ==
    IF s = <<>> THEN <<>>
    ELSE IF Head(s) = SP THEN Split_Fields(Tail(s))
    ELSE LET rest == Split_Fields(Tail(s)) IN
         IF Len(s) > 1 /\ s[2] # SP
         THEN << <<Head(s)>> \o rest[1] >> \o Tail(rest)
         ELSE << <<Head(s)>> >> \o rest

\* strings.Split(s, " "): the pieces of s between single spaces.
RECURSIVE Split(_)
Split(s) ==
    IF s = <<>> THEN << <<>> >>
    ELSE LET rest == Split(Tail(s)) IN
         IF Head(s) = SP THEN << <<>> >> \o rest
         ELSE << <<Head(s)>> \o rest[1] >> \o Tail(rest)

\* app.TokenValid(tokenStr): err == nil iff the string is one JWT whose
\* signature verifies and that has not expired.
TokenValid(tokenStr) ==
    /\ Len(tokenStr) = 1
    /\ tokenStr[1].kind = "jwt"
    /\ tokenStr[1].sigok
    /\ ~Expired(tokenStr[1])

(* ------------------------------ handlers ------------------------------- *)

\* What s.Subscriptions().FindByEmail can answer: a subscription, or an error.
SubscriptionResults == {"found", "not found", "store error"}

\* The code drawn as rand.Intn(max+1) + min: the range is not reduced by min.
VerificationCodes_WideRange == {Itoa(r + min) : r \in Intn(max + 1)}

\* CreateCode's strconv.Itoa(rand.Intn(max-min+1) + min).
VerificationCodes == {Itoa(r + min) : r \in Intn(max - min + 1)}

\* CreateDeleteCode's strconv.Itoa(rand.Intn(max-min+1) + min).
DeletionCodes == {Itoa(r + min) : r \in Intn(max - min + 1)}

\* CreateCode storing its code with c.Add semantics: a live entry is kept.
CreateCode_Add(decoded, email) ==
    IF ~decoded THEN
        /\ resp' = [Blank EXCEPT !.op = "CreateCode", !.status = 400,
                                 !.msg = InvalidRequestPayload]
        /\ UNCHANGED <<c, users, nextID, now, procs>>
    ELSE IF FindByEmail(email) # {} THEN
        /\ resp' = [Blank EXCEPT !.op = "CreateCode", !.email = email,
                                 !.status = 400, !.msg = "User couldn't created!"]
        /\ UNCHANGED <<c, users, nextID, now, procs>>
    ELSE \E code \in VerificationCodes :
        /\ c' = IF Found(email) THEN c ELSE Set(email, code)
        /\ resp' = [Blank EXCEPT !.op = "CreateCode", !.email = email,
                                 !.code = code, !.old = Live(email),
                                 !.mail = "sent", !.status = 200,
                                 !.msg = codeSuccess]
        /\ UNCHANGED <<users, nextID, now, procs>>

\* CreateCode: issue a signup verification code.
CreateCode(decoded, email) ==
    IF ~decoded THEN
        /\ resp' = [Blank EXCEPT !.op = "CreateCode", !.status = 400,
                                 !.msg = InvalidRequestPayload]
        /\ UNCHANGED <<c, users, nextID, now, procs>>
    ELSE IF FindByEmail(email) # {} THEN
        /\ resp' = [Blank EXCEPT !.op = "CreateCode", !.email = email,
                                 !.status = 400, !.msg = "User couldn't created!"]
        /\ UNCHANGED <<c, users, nextID, now, procs>>
    ELSE \E code \in VerificationCodes, mailOK \in BOOLEAN :
        /\ c' = Set(email, code)
        /\ resp' = [Blank EXCEPT !.op = "CreateCode", !.email = email,
                                 !.code = code, !.old = Live(email),
                                 !.mail = IF mailOK THEN "sent" ELSE "failed",
                                 !.status = IF mailOK THEN 200 ELSE 400,
                                 !.msg = IF mailOK THEN codeSuccess
                                         ELSE "Couldn't send email"]
        /\ UNCHANGED <<users, nextID, now, procs>>

\* CreateDeleteCode that stores its code before it looks the user up.
CreateDeleteCode_SetFirst(decoded, email) ==
    IF ~decoded THEN
        /\ resp' = [Blank EXCEPT !.op = "CreateDeleteCode", !.status = 400,
                                 !.msg = InvalidRequestPayload]
        /\ UNCHANGED <<c, users, nextID, now, procs>>
    ELSE \E code \in DeletionCodes :
        /\ c' = Set(email, code)
        /\ resp' = IF FindByEmail(email) = {}
                   THEN [Blank EXCEPT !.op = "CreateDeleteCode", !.email = email,
                                      !.status = 400,
                                      !.msg = "User couldn't be found!"]
                   ELSE [Blank EXCEPT !.op = "CreateDeleteCode", !.email = email,
                                      !.code = code, !.old = Live(email),
                                      !.mail = "sent", !.status = 200,
                                      !.msg = codeSuccess]
        /\ UNCHANGED <<users, nextID, now, procs>>

\* CreateDeleteCode: issue an account-deletion verification code.
CreateDeleteCode(decoded, email) ==
    IF ~decoded THEN
        /\ resp' = [Blank EXCEPT !.op = "CreateDeleteCode", !.status = 400,
                                 !.msg = InvalidRequestPayload]
        /\ UNCHANGED <<c, users, nextID, now, procs>>
    ELSE IF FindByEmail(email) = {} THEN
        /\ resp' = [Blank EXCEPT !.op = "CreateDeleteCode", !.email = email,
                                 !.status = 400, !.msg = "User couldn't be found!"]
        /\ UNCHANGED <<c, users, nextID, now, procs>>
    ELSE \E code \in DeletionCodes, mailOK \in BOOLEAN :
        /\ c' = Set(email, code)
        /\ resp' = [Blank EXCEPT !.op = "CreateDeleteCode", !.email = email,
                                 !.code = code, !.old = Live(email),
                                 !.mail = IF mailOK THEN "sent" ELSE "failed",
                                 !.status = IF mailOK THEN 200 ELSE 400,
                                 !.msg = IF mailOK THEN codeSuccess
                                         ELSE "Couldn't send email"]
        /\ UNCHANGED <<users, nextID, now, procs>>

\* VerifyCode that answers success without marking the email verified.
VerifyCode_NoMark(email, userCode) ==
    LET R == [Blank EXCEPT !.op = "VerifyCode", !.email = email, !.code = userCode] IN
    /\ resp' = IF ~Found(email)
               THEN [R EXCEPT !.status = 400, !.msg = "Code couldn't found!"]
               ELSE IF userCode # c[email].val
               THEN [R EXCEPT !.status = 400, !.msg = "Code doesn't match!"]
               ELSE [R EXCEPT !.status = 200, !.msg = verifySuccess]
    /\ UNCHANGED <<c, users, nextID, now, procs>>

\* VerifyCode that stores the pending code again when the codes differ,
\* restarting its TTL.
VerifyCode_Restore(email, userCode) ==
    LET R == [Blank EXCEPT !.op = "VerifyCode", !.email = email, !.code = userCode] IN
    IF ~Found(email) THEN
        /\ resp' = [R EXCEPT !.status = 400, !.msg = "Code couldn't found!"]
        /\ UNCHANGED <<c, users, nextID, now, procs>>
    ELSE IF userCode # c[email].val THEN
        /\ c' = Set(email, c[email].val)
        /\ resp' = [R EXCEPT !.status = 400, !.msg = "Code doesn't match!"]
        /\ UNCHANGED <<users, nextID, now, procs>>
    ELSE
        /\ c' = Set(email, verified)
        /\ resp' = [R EXCEPT !.status = 200, !.msg = verifySuccess,
                             !.old = Live(email)]
        /\ UNCHANGED <<users, nextID, now, procs>>

\* VerifyCode: compare the submitted code with the cached one.
VerifyCode(email, userCode) ==
    LET R == [Blank EXCEPT !.op = "VerifyCode", !.email = email, !.code = userCode] IN
    IF ~Found(email) THEN
        /\ resp' = [R EXCEPT !.status = 400, !.msg = "Code couldn't found!"]
        /\ UNCHANGED <<c, users, nextID, now, procs>>
    ELSE IF ~IsString(c[email].val) THEN
        /\ resp' = [R EXCEPT !.status = 500, !.msg = "Server error!"]
        /\ UNCHANGED <<c, users, nextID, now, procs>>
    ELSE IF userCode # c[email].val THEN
        /\ resp' = [R EXCEPT !.status = 400, !.msg = "Code doesn't match!"]
        /\ UNCHANGED <<c, users, nextID, now, procs>>
    ELSE
        /\ c' = Set(email, verified)
        /\ resp' = [R EXCEPT !.status = 200, !.msg = verifySuccess,
                             !.old = Live(email)]
        /\ UNCHANGED <<users, nextID, now, procs>>

\* isMailVerified without its comparison with "verified": any live entry passes.
isMailVerified_AnyEntry(email) ==
    IF ~Found(email) THEN "can't find email in cache"
    ELSE IF ~IsString(c[email].val) THEN "can't convert cached email data"
    ELSE "nil"

\* isMailVerified comparing with a marker that VerifyCode never stores.
isMailVerified_OtherMarker(email) ==
    IF ~Found(email) THEN "can't find email in cache"
    ELSE IF ~IsString(c[email].val) THEN "can't convert cached email data"
    ELSE IF c[email].val # <<"V">> \o Tail(verified)
         THEN "cached email value doesn't match"
    ELSE "nil"

\* isMailVerified: "nil", or the reason the email does not count as verified.
isMailVerified(email) ==
    IF ~Found(email) THEN "can't find email in cache"
    ELSE IF ~IsString(c[email].val) THEN "can't convert cached email data"
    ELSE IF c[email].val # verified THEN "cached email value doesn't match"
    ELSE "nil"

\* Signup without its FindByEmail check before app.CreateUser.
Signup_NoDuplicateCheck(decoded, payload) ==
    LET R == [Blank EXCEPT !.op = "Signup", !.email = payload.email] IN
    IF ~decoded THEN
        /\ resp' = [Blank EXCEPT !.op = "Signup", !.status = 400,
                                 !.msg = "Invalid request payload"]
        /\ UNCHANGED <<c, users, nextID, now, procs>>
    ELSE IF isMailVerified(payload.email) # "nil" THEN
        /\ resp' = [R EXCEPT !.status = 401, !.msg = "Email is not verified"]
        /\ UNCHANGED <<c, users, nextID, now, procs>>
    ELSE IF ~payload.valid THEN
        /\ resp' = [R EXCEPT !.status = 400, !.msg = InvalidRequestPayload]
        /\ UNCHANGED <<c, users, nextID, now, procs>>
    ELSE
        /\ nextID <= MaxUsers
        /\ users' = users \cup {CreateUser(payload)}
        /\ nextID' = nextID + 1
        /\ resp' = [R EXCEPT !.status = 200, !.msg = signupSuccess,
                             !.store = "created", !.mail = "admin"]
        /\ UNCHANGED <<c, now, procs>>

\* Signup that drops the marker once the account is created.
Signup_Consume(decoded, payload) ==
    LET R == [Blank EXCEPT !.op = "Signup", !.email = payload.email] IN
    IF ~decoded THEN
        /\ resp' = [Blank EXCEPT !.op = "Signup", !.status = 400,
                                 !.msg = "Invalid request payload"]
        /\ UNCHANGED <<c, users, nextID, now, procs>>
    ELSE IF isMailVerified(payload.email) # "nil" THEN
        /\ resp' = [R EXCEPT !.status = 401, !.msg = "Email is not verified"]
        /\ UNCHANGED <<c, users, nextID, now, procs>>
    ELSE IF ~payload.valid THEN
        /\ resp' = [R EXCEPT !.status = 400, !.msg = InvalidRequestPayload]
        /\ UNCHANGED <<c, users, nextID, now, procs>>
    ELSE IF FindByEmail(payload.email) # {} THEN
        /\ resp' = [R EXCEPT !.status = 400, !.msg = "User couldn't created!"]
        /\ UNCHANGED <<c, users, nextID, now, procs>>
    ELSE
     \/ /\ resp' = [R EXCEPT !.status = 500, !.msg = "create user error",
                             !.store = "create failed"]
        /\ UNCHANGED <<c, users, nextID, now, procs>>
     \/ /\ nextID <= MaxUsers
        /\ users' = users \cup {CreateUser(payload)}
        /\ nextID' = nextID + 1
        /\ c' = [k \in DOMAIN c \ {payload.email} |-> c[k]]
        /\ resp' = [R EXCEPT !.status = 200, !.msg = signupSuccess,
                             !.store = "created", !.mail = "admin"]
        /\ UNCHANGED <<now, procs>>

\* Signup: create the account of a verified email.
Signup(decoded, payload) ==
    LET R == [Blank EXCEPT !.op = "Signup", !.email = payload.email] IN
    IF ~decoded THEN
        /\ resp' = [Blank EXCEPT !.op = "Signup", !.status = 400,
                                 !.msg = "Invalid request payload"]
        /\ UNCHANGED <<c, users, nextID, now, procs>>
    ELSE IF isMailVerified(payload.email) # "nil" THEN
        /\ resp' = [R EXCEPT !.status = 401, !.msg = "Email is not verified"]
        /\ UNCHANGED <<c, users, nextID, now, procs>>
    ELSE IF ~payload.valid THEN
        /\ resp' = [R EXCEPT !.status = 400, !.msg = InvalidRequestPayload]
        /\ UNCHANGED <<c, users, nextID, now, procs>>
    ELSE IF FindByEmail(payload.email) # {} THEN
        /\ resp' = [R EXCEPT !.status = 400, !.msg = "User couldn't created!"]
        /\ UNCHANGED <<c, users, nextID, now, procs>>
    ELSE
     \/ \* app.CreateUser fails
        /\ resp' = [R EXCEPT !.status = 500, !.msg = "create user error",
                             !.store = "create failed"]
        /\ UNCHANGED <<c, users, nextID, now, procs>>
     \/ /\ nextID <= MaxUsers
        /\ users' = users \cup {CreateUser(payload)}
        /\ nextID' = nextID + 1
        /\ resp' = [R EXCEPT !.status = 200, !.msg = signupSuccess,
                             !.store = "created", !.mail = "admin"]
        /\ UNCHANGED <<c, now, procs>>

\* app.PayloadValidator(loginDTO): both fields carry validate:"required".
LoginValid(loginDTO) == loginDTO.email # "" /\ loginDTO.pw # ""

\* Signin that fails the request when the subscription lookup errs.
Signin_SubscriptionRequired(decoded, loginDTO) ==
    LET R == [Blank EXCEPT !.op = "Signin", !.email = loginDTO.email] IN
    IF ~decoded THEN
        /\ resp' = [Blank EXCEPT !.op = "Signin", !.status = 422, !.msg = InvalidJSON]
        /\ UNCHANGED <<c, users, nextID, now, procs>>
    ELSE IF ~LoginValid(loginDTO) THEN
        /\ resp' = [R EXCEPT !.status = 400, !.msg = InvalidRequestPayload]
        /\ UNCHANGED <<c, users, nextID, now, procs>>
    ELSE IF FindByCredentials(loginDTO.email, loginDTO.pw) = {} THEN
        /\ resp' = [R EXCEPT !.status = 401, !.msg = userLoginErr, !.ulookup = TRUE]
        /\ UNCHANGED <<c, users, nextID, now, procs>>
    ELSE \E sub \in SubscriptionResults :
        LET user == CHOOSE u \in FindByCredentials(loginDTO.email, loginDTO.pw) : TRUE
            R2 == [R EXCEPT !.ulookup = TRUE, !.sub = sub]
        IN
        /\ resp' = IF sub # "found"
                   THEN [R2 EXCEPT !.status = 500, !.msg = "subscription error"]
                   ELSE [R2 EXCEPT !.status = 200, !.tier = "pro",
                                   !.issue = "ok", !.token = CreateToken(user),
                                   !.tkey = TRUE]
        /\ UNCHANGED <<c, users, nextID, now, procs>>

\* Signin that tells an unknown email from a wrong password.
Signin_DistinctErrors(decoded, loginDTO) ==
    LET R == [Blank EXCEPT !.op = "Signin", !.email = loginDTO.email] IN
    IF ~decoded THEN
        /\ resp' = [Blank EXCEPT !.op = "Signin", !.status = 422, !.msg = InvalidJSON]
        /\ UNCHANGED <<c, users, nextID, now, procs>>
    ELSE IF ~LoginValid(loginDTO) THEN
        /\ resp' = [R EXCEPT !.status = 400, !.msg = InvalidRequestPayload]
        /\ UNCHANGED <<c, users, nextID, now, procs>>
    ELSE IF FindByEmail(loginDTO.email) = {} THEN
        /\ resp' = [R EXCEPT !.status = 404, !.msg = "User couldn't be found!",
                             !.ulookup = TRUE]
        /\ UNCHANGED <<c, users, nextID, now, procs>>
    ELSE IF FindByCredentials(loginDTO.email, loginDTO.pw) = {} THEN
        /\ resp' = [R EXCEPT !.status = 401, !.msg = userLoginErr, !.ulookup = TRUE]
        /\ UNCHANGED <<c, users, nextID, now, procs>>
    ELSE \E sub \in SubscriptionResults, tokenOK \in BOOLEAN :
        LET user == CHOOSE u \in FindByCredentials(loginDTO.email, loginDTO.pw) : TRUE
            subscriptionType == IF sub # "found" THEN "free" ELSE "pro"
            R2 == [R EXCEPT !.ulookup = TRUE, !.sub = sub]
        IN
        /\ resp' = IF ~tokenOK
                   THEN [R2 EXCEPT !.status = 500, !.msg = tokenCreateErr,
                                   !.issue = "failed"]
                   ELSE [R2 EXCEPT !.status = 200, !.tier = subscriptionType,
                                   !.issue = "ok", !.token = CreateToken(user),
                                   !.tkey = TRUE]
        /\ UNCHANGED <<c, users, nextID, now, procs>>

\* Signin: credentials in, session token out.
Signin(decoded, loginDTO) ==
    LET R == [Blank EXCEPT !.op = "Signin", !.email = loginDTO.email] IN
    IF ~decoded THEN
        /\ resp' = [Blank EXCEPT !.op = "Signin", !.status = 422, !.msg = InvalidJSON]
        /\ UNCHANGED <<c, users, nextID, now, procs>>
    ELSE IF ~LoginValid(loginDTO) THEN
        /\ resp' = [R EXCEPT !.status = 400, !.msg = InvalidRequestPayload]
        /\ UNCHANGED <<c, users, nextID, now, procs>>
    ELSE IF FindByCredentials(loginDTO.email, loginDTO.pw) = {} THEN
        /\ resp' = [R EXCEPT !.status = 401, !.msg = userLoginErr, !.ulookup = TRUE]
        /\ UNCHANGED <<c, users, nextID, now, procs>>
    ELSE \E sub \in SubscriptionResults, tokenOK \in BOOLEAN :
        LET user == CHOOSE u \in FindByCredentials(loginDTO.email, loginDTO.pw) : TRUE
            subscriptionType == IF sub # "found" THEN "free" ELSE "pro"
            R2 == [R EXCEPT !.ulookup = TRUE, !.sub = sub]
        IN
        /\ resp' = IF ~tokenOK
                   THEN [R2 EXCEPT !.status = 500, !.msg = tokenCreateErr,
                                   !.issue = "failed"]
                   ELSE [R2 EXCEPT !.status = 200, !.tier = subscriptionType,
                                   !.issue = "ok", !.token = CreateToken(user),
                                   !.tkey = TRUE]
        /\ UNCHANGED <<c, users, nextID, now, procs>>

\* RefreshToken: a valid session cookie in, a new session token out.
RefreshToken(cookie) ==
    LET R == [Blank EXCEPT !.op = "RefreshToken"]
        err == ParseWithClaims(cookie.value)
        claims == cookie.value
    IN
    IF ~cookie.present THEN
        /\ resp' = [R EXCEPT !.status = 401]
        /\ UNCHANGED <<c, users, nextID, now, procs>>
    ELSE IF err # NilErr THEN
        /\ resp' = [R EXCEPT !.status = IF err = ErrSignatureInvalid THEN 401 ELSE 400]
        /\ UNCHANGED <<c, users, nextID, now, procs>>
    ELSE IF FindByUUID(claims.uuid) = {} THEN
        /\ resp' = [R EXCEPT !.status = 401, !.msg = invalidUser, !.ulookup = TRUE]
        /\ UNCHANGED <<c, users, nextID, now, procs>>
    ELSE \E sub \in SubscriptionResults, tokenOK \in BOOLEAN :
        LET user == CHOOSE u \in FindByUUID(claims.uuid) : TRUE
            subscriptionType == IF sub # "found" THEN "free" ELSE "pro"
            R2 == [R EXCEPT !.email = user.email, !.ulookup = TRUE, !.sub = sub]
        IN
        /\ resp' = IF ~tokenOK
                   THEN [R2 EXCEPT !.status = 500, !.msg = tokenCreateErr,
                                   !.issue = "failed"]
                   ELSE [R2 EXCEPT !.status = 200, !.tier = subscriptionType,
                                   !.issue = "ok",
                                   !.token = RefreshTokenWithClaims(user, claims)]
        /\ UNCHANGED <<c, users, nextID, now, procs>>

\* CheckToken: the user a bearer token belongs to.
CheckToken(bearerToken) ==
    LET R == [Blank EXCEPT !.op = "CheckToken"]
        strArr == Split(bearerToken)
        tokenStr == IF Len(strArr) = 2 THEN strArr[2] ELSE <<>>
    IN
    /\ resp' = IF tokenStr = <<>> THEN [R EXCEPT !.status = 401, !.msg = noToken]
               ELSE IF ~TokenValid(tokenStr)
                    THEN [R EXCEPT !.status = 401, !.msg = invalidToken]
               ELSE IF FindByUUID(tokenStr[1].uuid) = {}
                    THEN [R EXCEPT !.status = 401, !.msg = invalidUser,
                                   !.ulookup = TRUE]
               ELSE [R EXCEPT !.status = 200, !.ulookup = TRUE,
                              !.email = (CHOOSE u \in FindByUUID(tokenStr[1].uuid) :
                                             TRUE).email]
    /\ UNCHANGED <<c, users, nextID, now, procs>>

\* RecoverDelete that looks the user up before it checks the verification.
RecoverDelete_LookupFirst(email) ==
    LET R == [Blank EXCEPT !.op = "RecoverDelete", !.email = email] IN
    IF FindByEmail(email) = {} THEN
        /\ resp' = [R EXCEPT !.status = 404, !.msg = "record not found"]
        /\ UNCHANGED <<c, users, nextID, now, procs>>
    ELSE IF isMailVerified(email) # "nil" THEN
        /\ resp' = [R EXCEPT !.status = 401, !.msg = "Email is not verified"]
        /\ UNCHANGED <<c, users, nextID, now, procs>>
    ELSE
        /\ users' = Delete((CHOOSE u \in FindByEmail(email) : TRUE).id)
        /\ resp' = [R EXCEPT !.status = 200, !.msg = "User deleted successfully!",
                             !.store = "deleted"]
        /\ UNCHANGED <<c, nextID, now, procs>>

\* RecoverDelete that stores the marker again when the gate passes.
RecoverDelete_Touch(email) ==
    LET R == [Blank EXCEPT !.op = "RecoverDelete", !.email = email] IN
    IF isMailVerified(email) # "nil" THEN
        /\ resp' = [R EXCEPT !.status = 401, !.msg = "Email is not verified"]
        /\ UNCHANGED <<c, users, nextID, now, procs>>
    ELSE IF FindByEmail(email) = {} THEN
        /\ c' = Set(email, verified)
        /\ resp' = [R EXCEPT !.status = 404, !.msg = "record not found"]
        /\ UNCHANGED <<users, nextID, now, procs>>
    ELSE
     \/ /\ c' = Set(email, verified)
        /\ resp' = [R EXCEPT !.status = 404, !.msg = "delete user error",
                             !.store = "delete failed"]
        /\ UNCHANGED <<users, nextID, now, procs>>
     \/ /\ c' = Set(email, verified)
        /\ users' = Delete((CHOOSE u \in FindByEmail(email) : TRUE).id)
        /\ resp' = [R EXCEPT !.status = 200, !.msg = "User deleted successfully!",
                             !.store = "deleted"]
        /\ UNCHANGED <<nextID, now, procs>>

\* RecoverDelete: delete the account of a verified email.
RecoverDelete(email) ==
    LET R == [Blank EXCEPT !.op = "RecoverDelete", !.email = email] IN
    IF isMailVerified(email) # "nil" THEN
        /\ resp' = [R EXCEPT !.status = 401, !.msg = "Email is not verified"]
        /\ UNCHANGED <<c, users, nextID, now, procs>>
    ELSE IF FindByEmail(email) = {} THEN
        /\ resp' = [R EXCEPT !.status = 404, !.msg = "record not found"]
        /\ UNCHANGED <<c, users, nextID, now, procs>>
    ELSE
     \/ \* s.Users().Delete fails
        /\ resp' = [R EXCEPT !.status = 404, !.msg = "delete user error",
                             !.store = "delete failed"]
        /\ UNCHANGED <<c, users, nextID, now, procs>>
     \/ /\ users' = Delete((CHOOSE u \in FindByEmail(email) : TRUE).id)
        /\ resp' = [R EXCEPT !.status = 200, !.msg = "User deleted successfully!",
                             !.store = "deleted"]
        /\ UNCHANGED <<c, nextID, now, procs>>

\* The cache's janitor drops the entries that have lapsed.
DeleteExpired ==
    /\ \E k \in DOMAIN c : ~Found(k)
    /\ c' = [k \in {x \in DOMAIN c : Found(x)} |-> c[k]]
    /\ resp' = Blank
    /\ UNCHANGED <<users, nextID, now, procs>>

\* Time passes.
Tick ==
    /\ now < MaxTime
    /\ now' = now + 1
    /\ resp' = Blank
    /\ UNCHANGED <<c, users, nextID, procs>>

\* The codes a client submits: the issued ones, a wrong one and the marker.
UserCodes == VerificationCodes \cup DeletionCodes \cup {<<"0", "0", "0", "0", "0", "0">>, verified}

\* Request bodies of the code requests: undecodable, or a decoded email.
EmailBodies ==
    {[ok |-> FALSE, email |-> ""]} \cup {[ok |-> TRUE, email |-> e] : e \in Emails}

\* Decoded signup bodies; valid is the verdict of app.PayloadValidator.
SignupPayloads == [email : Emails, pw : Passwords, valid : BOOLEAN]

\* Request bodies of Signup: undecodable, or a decoded payload.
SignupBodies ==
    {[ok |-> FALSE, payload |-> [email |-> "", pw |-> "", valid |-> FALSE]]}
        \cup {[ok |-> TRUE, payload |-> p] : p \in SignupPayloads}

\* Request bodies of Signin: undecodable, or a decoded email/password pair.
LoginBodies ==
    {[ok |-> FALSE, dto |-> [email |-> "", pw |-> ""]]}
        \cup {[ok |-> TRUE, dto |-> d] :
                 d \in [email : Emails \cup {""}, pw : Passwords \cup {"pw2", ""}]}

\* The request's passwall_token cookie: not set, or set to a token string.
Cookies ==
    {[present |-> FALSE, value |-> Word]}
        \cup {[present |-> TRUE, value |-> t] : t \in TokenStrings}

\* Authorization header values.
Headers ==
    {<<>>, <<Word>>, <<Word, SP>>, <<SP, Word>>, <<Word, SP, SP, Word>>,
     <<Word, SP, Word, SP, Word>>}
        \cup {<<Word, SP, t>> : t \in TokenStrings}

Init ==
    /\ c = <<>>
    /\ users = {}
    /\ nextID = 1
    /\ now = 0
    /\ resp = Blank
    /\ procs = Idle

Next ==
    \/ \E body \in EmailBodies : CreateCode(body.ok, body.email)
    \/ \E body \in EmailBodies : CreateDeleteCode(body.ok, body.email)
    \/ \E email \in Emails, userCode \in UserCodes : VerifyCode(email, userCode)
    \/ \E body \in SignupBodies : Signup(body.ok, body.payload)
    \/ \E email \in Emails : RecoverDelete(email)
    \/ DeleteExpired
    \/ Tick

\* The account flows: code requests, verification, signup, deletion, expiry.
Spec == Init /\ [][Next]_vars

NextSignupCodes ==
    \/ \E body \in EmailBodies : CreateCode(body.ok, body.email)
    \/ \E email \in Emails, userCode \in UserCodes : VerifyCode(email, userCode)
    \/ \E body \in SignupBodies : Signup(body.ok, body.payload)
    \/ \E email \in Emails : RecoverDelete(email)
    \/ DeleteExpired
    \/ Tick

\* The account flows of clients that never ask for a deletion code: every
\* code in the cache, and every marker, comes from CreateCode.
SpecSignupCodes == Init /\ [][NextSignupCodes]_vars

\* The user stores the account flows can leave behind.
Stores ==
    {S \in SUBSET [id : 1..MaxUsers, email : Emails, pw : Passwords] :
        \A u, v \in S : (u.id = v.id \/ u.email = v.email) => u = v}

InitSession ==
    /\ c = <<>>
    /\ users \in Stores
    /\ nextID = MaxUsers + 1
    /\ now = 0
    /\ resp = Blank
    /\ procs = Idle

NextSession ==
    \/ \E body \in LoginBodies : Signin(body.ok, body.dto)
    \/ \E cookie \in Cookies : RefreshToken(cookie)
    \/ \E bearerToken \in Headers : CheckToken(bearerToken)
    \/ Tick

\* The session flows, which read the user store and the clock and write nothing.
SpecSession == InitSession /\ [][NextSession]_vars

(* ----------------------- handlers that interleave ---------------------- *)

\* net/http runs each request on a goroutine of its own, so the handlers'
\* calls on the cache and the store interleave. A worker takes one request
\* and goes through its handler call by call; what the handler computes
\* between two calls is part of the step of the later call.

\* Worker w moves to position pc with request record r.
Goto(w, pc, r) == procs' = [procs EXCEPT ![w].pc = pc, ![w].r = r]

\* The rank of the next c.Set among the c.Set calls made so far.
NextRank == 1 + Cardinality({w \in Workers : procs[w].wrote > 0})

\* CreateCode up to its FindByEmail check (auth.go:39-54).
CreateCode_FindByEmail(w, decoded, email) ==
    LET R == [Blank EXCEPT !.op = "CreateCode"] IN
    /\ procs[w].pc = "idle"
    /\ IF ~decoded THEN
           Goto(w, "done", [R EXCEPT !.status = 400, !.msg = InvalidRequestPayload])
       ELSE IF FindByEmail(email) # {} THEN
           Goto(w, "done", [R EXCEPT !.email = email, !.status = 400,
                                     !.msg = "User couldn't created!"])
       ELSE Goto(w, "CreateCode c.Set", [R EXCEPT !.email = email])
    /\ UNCHANGED <<c, users, nextID, now, resp>>

\* CreateCode storing the code as c.Add would: a live entry is kept.
CreateCode_Set_Add(w) ==
    /\ procs[w].pc = "CreateCode c.Set"
    /\ \E code \in VerificationCodes :
          /\ c' = IF Found(procs[w].r.email) THEN c ELSE Set(procs[w].r.email, code)
          /\ procs' = [procs EXCEPT ![w].pc = "CreateCode SendMail",
                                    ![w].wrote = NextRank,
                                    ![w].r.code = code,
                                    ![w].r.old = Live(procs[w].r.email)]
    /\ UNCHANGED <<users, nextID, now, resp>>

\* CreateCode drawing its code and storing it (auth.go:56-65).
CreateCode_Set(w) ==
    /\ procs[w].pc = "CreateCode c.Set"
    /\ \E code \in VerificationCodes :
          /\ c' = Set(procs[w].r.email, code)
          /\ procs' = [procs EXCEPT ![w].pc = "CreateCode SendMail",
                                    ![w].wrote = NextRank,
                                    ![w].r.code = code,
                                    ![w].r.old = Live(procs[w].r.email)]
    /\ UNCHANGED <<users, nextID, now, resp>>

\* CreateCode mailing its code and answering (auth.go:67-83).
CreateCode_SendMail(w) ==
    /\ procs[w].pc = "CreateCode SendMail"
    /\ \E mailOK \in BOOLEAN :
          Goto(w, "done", [procs[w].r EXCEPT
                              !.mail = IF mailOK THEN "sent" ELSE "failed",
                              !.status = IF mailOK THEN 200 ELSE 400,
                              !.msg = IF mailOK THEN codeSuccess
                                      ELSE "Couldn't send email"])
    /\ UNCHANGED <<c, users, nextID, now, resp>>

\* CreateDeleteCode up to its FindByEmail check (auth.go:87-102).
CreateDeleteCode_FindByEmail(w, decoded, email) ==
    LET R == [Blank EXCEPT !.op = "CreateDeleteCode"] IN
    /\ procs[w].pc = "idle"
    /\ IF ~decoded THEN
           Goto(w, "done", [R EXCEPT !.status = 400, !.msg = InvalidRequestPayload])
       ELSE IF FindByEmail(email) = {} THEN
           Goto(w, "done", [R EXCEPT !.email = email, !.status = 400,
                                     !.msg = "User couldn't be found!"])
       ELSE Goto(w, "CreateDeleteCode c.Set", [R EXCEPT !.email = email])
    /\ UNCHANGED <<c, users, nextID, now, resp>>

\* CreateDeleteCode drawing its code and storing it (auth.go:104-113).
CreateDeleteCode_Set(w) ==
    /\ procs[w].pc = "CreateDeleteCode c.Set"
    /\ \E code \in DeletionCodes :
          /\ c' = Set(procs[w].r.email, code)
          /\ procs' = [procs EXCEPT ![w].pc = "CreateDeleteCode SendMail",
                                    ![w].wrote = NextRank,
                                    ![w].r.code = code,
                                    ![w].r.old = Live(procs[w].r.email)]
    /\ UNCHANGED <<users, nextID, now, resp>>

\* CreateDeleteCode mailing its code and answering (auth.go:115-131).
CreateDeleteCode_SendMail(w) ==
    /\ procs[w].pc = "CreateDeleteCode SendMail"
    /\ \E mailOK \in BOOLEAN :
          Goto(w, "done", [procs[w].r EXCEPT
                              !.mail = IF mailOK THEN "sent" ELSE "failed",
                              !.status = IF mailOK THEN 200 ELSE 400,
                              !.msg = IF mailOK THEN codeSuccess
                                      ELSE "Couldn't send email"])
    /\ UNCHANGED <<c, users, nextID, now, resp>>

\* VerifyCode reading the entry and comparing it with the submitted code
\* (auth.go:135-155).
VerifyCode_Get(w, email, userCode) ==
    LET R == [Blank EXCEPT !.op = "VerifyCode", !.email = email, !.code = userCode] IN
    /\ procs[w].pc = "idle"
    /\ IF ~Found(email) THEN
           Goto(w, "done", [R EXCEPT !.status = 400, !.msg = "Code couldn't found!"])
       ELSE IF ~IsString(c[email].val) THEN
           Goto(w, "done", [R EXCEPT !.status = 500, !.msg = "Server error!"])
       ELSE IF userCode # c[email].val THEN
           procs' = [procs EXCEPT ![w].pc = "done", ![w].got = c[email].val,
                                  ![w].r = [R EXCEPT !.status = 400,
                                                     !.msg = "Code doesn't match!"]]
       ELSE procs' = [procs EXCEPT ![w].pc = "VerifyCode c.Set",
                                   ![w].got = c[email].val, ![w].r = R]
    /\ UNCHANGED <<c, users, nextID, now, resp>>

\* VerifyCode storing the marker and answering (auth.go:157-166).
VerifyCode_Set(w) ==
    /\ procs[w].pc = "VerifyCode c.Set"
    /\ c' = Set(procs[w].r.email, verified)
    /\ procs' = [procs EXCEPT ![w].pc = "done",
                              ![w].wrote = NextRank,
                              ![w].r = [procs[w].r EXCEPT
                                           !.status = 200, !.msg = verifySuccess,
                                           !.old = Live(procs[w].r.email)]]
    /\ UNCHANGED <<users, nextID, now, resp>>

\* The states the requests in flight start from: no account or one, and no
\* code or one pending code, issued at time 0 by the code request the email's
\* account calls for.
ConcStores == {{}} \cup {{[id |-> 1, email |-> e, pw |-> pw]} : e \in Emails, pw \in Passwords}

InitConc ==
    /\ users \in ConcStores
    /\ nextID = Cardinality(users) + 1
    /\ now = 0
    /\ c \in {<<>>} \cup
             {[k \in {e} |-> [val |-> code, exp |-> TTL]] :
                  e \in Emails, code \in VerificationCodes \cup DeletionCodes}
    /\ resp = Blank
    /\ procs = Idle

NextConc ==
    \/ \E w \in Workers, body \in EmailBodies : CreateCode_FindByEmail(w, body.ok, body.email)
    \/ \E w \in Workers : CreateCode_Set(w)
    \/ \E w \in Workers : CreateCode_SendMail(w)
    \/ \E w \in Workers, body \in EmailBodies : CreateDeleteCode_FindByEmail(w, body.ok, body.email)
    \/ \E w \in Workers : CreateDeleteCode_Set(w)
    \/ \E w \in Workers : CreateDeleteCode_SendMail(w)
    \/ \E w \in Workers, email \in Emails, userCode \in UserCodes : VerifyCode_Get(w, email, userCode)
    \/ \E w \in Workers : VerifyCode_Set(w)

\* Code requests and verifications in flight together, within one TTL.
SpecConc == InitConc /\ [][NextConc]_vars

(* ------------------------------- claims -------------------------------- *)

\* The cache holds a live "verified" marker for e.
VerifiedEntry(e) == e \in DOMAIN c /\ now < c[e].exp /\ c[e].val = verified

\* The cache holds a live entry for e that is a pending code.
PendingEntry(e) == e \in DOMAIN c /\ now < c[e].exp /\ c[e].val # verified

\* Some persisted user has email e.
HasAccount(e) == \E u \in users : u.email = e

\* C1: a Signup step for email E adds a user (and only one, with email E) only
\* if the cache entry of E is live and equals "verified" when Signup reads it;
\* when the entry is absent, lapsed or a pending code, Signup answers 401
\* "Email is not verified" and the user store is unchanged.
C1_SignupGate ==
    [][\A e \in Emails :
         (resp'.op = "Signup" /\ resp'.email = e) =>
            /\ users' # users =>
                 /\ VerifiedEntry(e)
                 /\ users \subseteq users'
                 /\ \A u \in users' \ users : u.email = e
            /\ ~VerifiedEntry(e) =>
                 /\ resp'.status = 401
                 /\ resp'.msg = "Email is not verified"
                 /\ users' = users]_vars

\* C1 witness: Signup has created the account of a verified email.
C1_Witness ==
    /\ resp.op = "Signup"
    /\ resp.status = 200
    /\ resp.store = "created"
    /\ HasAccount(resp.email)
    /\ VerifiedEntry(resp.email)

\* C2: a RecoverDelete step for email E removes a user (only users with email
\* E) only if the cache entry of E is live and equals "verified"; otherwise it
\* answers 401 "Email is not verified" and the store is unchanged; when the
\* gate passes and no user has email E it answers 404 and the store is
\* unchanged.
C2_DeleteGate ==
    [][\A e \in Emails :
         (resp'.op = "RecoverDelete" /\ resp'.email = e) =>
            /\ users' # users =>
                 /\ VerifiedEntry(e)
                 /\ users' \subseteq users
                 /\ \A u \in users \ users' : u.email = e
            /\ ~VerifiedEntry(e) =>
                 /\ resp'.status = 401
                 /\ resp'.msg = "Email is not verified"
                 /\ users' = users
            /\ (VerifiedEntry(e) /\ ~HasAccount(e)) =>
                 /\ resp'.status = 404
                 /\ users' = users]_vars

\* C2 witness: RecoverDelete has deleted the account of a verified email.
C2_Witness ==
    /\ resp.op = "RecoverDelete"
    /\ resp.status = 200
    /\ resp.store = "deleted"
    /\ ~HasAccount(resp.email)
    /\ VerifiedEntry(resp.email)

\* s is a string of exactly six decimal digits.
SixDigits(s) == Len(s) = 6 /\ \A i \in 1..6 : s[i] \in DigitSet

\* C3: while the entry of E is the live pending code C, VerifyCode(E, C)
\* answers success and leaves the entry of E live and equal to "verified", and
\* VerifyCode(E, X) for a six-digit X other than C answers 400 "Code doesn't
\* match!".
C3_VerifyIssuedCode ==
    [][\A e \in Emails :
         (resp'.op = "VerifyCode" /\ resp'.email = e /\ PendingEntry(e)) =>
            /\ resp'.code = c[e].val =>
                 /\ resp'.status = 200
                 /\ resp'.msg = verifySuccess
                 /\ VerifiedEntry(e)'
            /\ (resp'.code # c[e].val /\ SixDigits(resp'.code)) =>
                 /\ resp'.status = 400
                 /\ resp'.msg = "Code doesn't match!"]_vars

\* C3 witness: a submitted six-digit code has just turned the entry into
\* "verified".
C3_Witness ==
    /\ resp.op = "VerifyCode"
    /\ resp.status = 200
    /\ SixDigits(resp.code)
    /\ resp.old = resp.code
    /\ VerifiedEntry(resp.email)

\* C4: a VerifyCode step that answers "Code doesn't match!" or "Code couldn't
\* found!" leaves the whole cache as it was, values and expiry times.
C4_FailedVerifyKeepsCache ==
    [][(/\ resp'.op = "VerifyCode"
        /\ resp'.msg \in {"Code doesn't match!", "Code couldn't found!"}) =>
            c' = c]_vars

\* C4 witness: a wrong code was refused while a pending code written at an
\* earlier tick is still cached.
C4_Witness ==
    /\ resp.op = "VerifyCode"
    /\ resp.msg = "Code doesn't match!"
    /\ PendingEntry(resp.email)
    /\ c[resp.email].exp < now + TTL

\* C5: a code request for E that answers success leaves exactly the new code
\* under E, with a fresh TTL, whatever E's entry held, and touches no other
\* entry; while the entry of E is a pending code, no other code verifies and
\* Signup and RecoverDelete for E answer 401 "Email is not verified".
C5_CodeRequestOverwrites ==
    [][\A e \in Emails :
         /\ (/\ resp'.op \in {"CreateCode", "CreateDeleteCode"}
             /\ resp'.email = e
             /\ resp'.status = 200) =>
               /\ DOMAIN c' = (DOMAIN c) \cup {e}
               /\ c'[e] = [val |-> resp'.code, exp |-> now + TTL]
               /\ SixDigits(resp'.code)
               /\ \A k \in (DOMAIN c) \ {e} : c'[k] = c[k]
         /\ (/\ resp'.op \in {"Signup", "RecoverDelete"}
             /\ resp'.email = e
             /\ PendingEntry(e)) =>
               /\ resp'.status = 401
               /\ resp'.msg = "Email is not verified"
               /\ users' = users
         /\ (/\ resp'.op = "VerifyCode"
             /\ resp'.email = e
             /\ PendingEntry(e)
             /\ resp'.code # c[e].val) =>
               /\ resp'.status # 200
               /\ c' = c]_vars

\* C5 witness: a code request has replaced a live "verified" marker by its
\* new pending code.
C5_Witness ==
    /\ resp.op \in {"CreateCode", "CreateDeleteCode"}
    /\ resp.status = 200
    /\ resp.old = verified
    /\ PendingEntry(resp.email)
    /\ c[resp.email].val = resp.code

\* The digit a digit character stands for.
DigitValue(ch) == CHOOSE d \in 0..9 : Digits[d + 1] = ch

\* The number a string of decimal digits denotes.
RECURSIVE Atoi(_)
Atoi(s) ==
    IF s = <<>> THEN 0
    ELSE 10 * Atoi(SubSeq(s, 1, Len(s) - 1)) + DigitValue(s[Len(s)])

\* C6: every value in the verification cache is "verified" or the decimal
\* string, six digits without a leading zero, of an integer of
\* [100000, 999999].
C6_CacheValues ==
    \A k \in DOMAIN c :
        \/ c[k].val = verified
        \/ /\ SixDigits(c[k].val)
           /\ c[k].val[1] # "0"
           /\ Atoi(c[k].val) >= 100000
           /\ Atoi(c[k].val) <= 999999

\* C6 witness: the cache holds the smallest code, issued by CreateCode, and
\* the largest one, just issued by CreateDeleteCode.
C6_Witness ==
    /\ resp.op = "CreateDeleteCode"
    /\ resp.status = 200
    /\ c[resp.email].val = <<"9", "9", "9", "9", "9", "9">>
    /\ \E k \in DOMAIN c : c[k].val = <<"1", "0", "0", "0", "0", "0">>

\* C7: CreateCode for an email that has an account answers 400 "User couldn't
\* created!", and CreateDeleteCode for an email that has none answers 400
\* "User couldn't be found!"; in both cases no code is generated, the cache is
\* unchanged and app.SendMail is not called.
C7_RejectedCodeRequest ==
    [][\A e \in Emails :
         /\ (resp'.op = "CreateCode" /\ resp'.email = e /\ HasAccount(e)) =>
               /\ resp'.status = 400
               /\ resp'.msg = "User couldn't created!"
               /\ resp'.code = <<>>
               /\ resp'.mail = "none"
               /\ c' = c
         /\ (resp'.op = "CreateDeleteCode" /\ resp'.email = e /\ ~HasAccount(e)) =>
               /\ resp'.status = 400
               /\ resp'.msg = "User couldn't be found!"
               /\ resp'.code = <<>>
               /\ resp'.mail = "none"
               /\ c' = c]_vars

\* C7 witness: CreateCode was refused for a registered email whose "verified"
\* marker is still cached.
C7_Witness ==
    /\ resp.op = "CreateCode"
    /\ resp.msg = "User couldn't created!"
    /\ HasAccount(resp.email)
    /\ VerifiedEntry(resp.email)

\* No two persisted users share an email.
UniqueEmails == \A u, v \in users : u.email = v.email => u = v

\* C8 as stated: once the entry of E is "verified", every Signup for an E
\* that has an account answers 400 "User couldn't created!" and adds no user;
\* and no two users ever share an email.
C8_DuplicateSignup ==
    /\ UniqueEmails
    /\ [][/\ UniqueEmails'
          /\ \A p \in SignupPayloads :
               (Signup(TRUE, p) /\ VerifiedEntry(p.email) /\ HasAccount(p.email)) =>
                  /\ resp'.status = 400
                  /\ resp'.msg = "User couldn't created!"
                  /\ users' = users]_vars

\* C8 amended: the same for every Signup whose payload passes
\* app.PayloadValidator; whatever the payload, such a Signup adds no user.
C8_DuplicateValidSignup ==
    /\ UniqueEmails
    /\ [][/\ UniqueEmails'
          /\ \A p \in SignupPayloads :
               (Signup(TRUE, p) /\ VerifiedEntry(p.email) /\ HasAccount(p.email)) =>
                  /\ users' = users
                  /\ p.valid =>
                       /\ resp'.status = 400
                       /\ resp'.msg = "User couldn't created!"]_vars

\* C8 witness: a verified Signup was refused because the email has an account.
C8_Witness ==
    /\ resp.op = "Signup"
    /\ resp.msg = "User couldn't created!"
    /\ VerifiedEntry(resp.email)
    /\ HasAccount(resp.email)

\* C9: a request in which app.SendMail, app.CreateUser or the store's Delete
\* failed answers with a 5xx status.
C9_DependentFailuresAre5xx ==
    (\/ resp.mail = "failed"
     \/ resp.store \in {"create failed", "delete failed"}) =>
        resp.status \in 500..599

\* What C10 says of a response that got as far as the subscription lookup.
SoftDegraded(r) ==
    /\ r.sub \in SubscriptionResults
    /\ r.issue \in {"ok", "failed"}
    /\ r.issue = "ok" =>
         /\ r.status = 200
         /\ r.tier = "free" <=> r.sub # "found"
         /\ r.tier = "pro" <=> r.sub = "found"
    /\ r.issue = "failed" => (r.status = 500 /\ r.msg = tokenCreateErr)

\* C10: every Signin with the credentials of a user, and every RefreshToken
\* with a valid token of a user, looks the subscription up and goes on to
\* token issuance whatever the lookup answers; the tier is "free" exactly when
\* the lookup erred and "pro" exactly when it found a subscription, and the
\* request fails only if token creation fails.
C10_SubscriptionSoftDegrade ==
    [][/\ \A d \in [email : Emails, pw : Passwords \cup {"pw2"}] :
            (/\ Signin(TRUE, d)
             /\ \E u \in users : u.email = d.email /\ u.pw = d.pw) =>
                SoftDegraded(resp')
       /\ \A t \in JWTs :
            (/\ RefreshToken([present |-> TRUE, value |-> t])
             /\ t.sigok
             /\ now < t.exp
             /\ \E u \in users : u.id = t.uuid) =>
                SoftDegraded(resp')]_vars

\* C10 witness: a Signin whose subscription lookup erred was answered 200 with
\* tier "free" and a token.
C10_Witness ==
    /\ resp.op = "Signin"
    /\ resp.status = 200
    /\ resp.sub = "store error"
    /\ resp.tier = "free"
    /\ resp.issue = "ok"
    /\ resp.token # NoToken

(* ------------------------------- C11 ----------------------------------- *)

\* What a response lets its receiver see: everything but the ghost fields
\* and the echo of the request.
Visible(r) == [status |-> r.status, msg |-> r.msg, tier |-> r.tier,
               token |-> r.token, tkey |-> r.tkey]

\* The one answer to a failed authentication.
LoginRefused == [status |-> 401, msg |-> userLoginErr, tier |-> "",
                 token |-> NoToken, tkey |-> FALSE]

\* C11: a Signin with a well-formed payload that fails authentication is
\* answered the same way whether no user has the email or the password is
\* wrong: 401 with "User email or master password is wrong.", and neither
\* case looks up a subscription, issues a token or sets a cookie.
C11_UniformLoginFailure ==
    [][\A d \in LoginBodies :
          (/\ Signin(d.ok, d.dto)
           /\ d.ok /\ LoginValid(d.dto)
           /\ \/ ~HasAccount(d.dto.email)
              \/ \E u \in users : u.email = d.dto.email /\ u.pw # d.dto.pw)
          => /\ Visible(resp') = LoginRefused
             /\ resp'.sub = "none"
             /\ resp'.issue = "none"]_vars

\* A wrong password for an existing account was refused while another email
\* has no account at all.
C11_Witness ==
    /\ resp.op = "Signin"
    /\ Visible(resp) = LoginRefused
    /\ HasAccount(resp.email)
    /\ \E e \in Emails : ~HasAccount(e)

(* ------------------------------- C12 ----------------------------------- *)

\* A rejected refresh reached neither the user store nor the token issuer.
RefreshStoppedEarly(r) ==
    /\ r.ulookup = FALSE
    /\ r.sub = "none"
    /\ r.issue = "none"
    /\ r.token = NoToken

\* C12: RefreshToken answers a request without the passwall_token cookie
\* with 401, a token whose signature does not verify with 401, and an
\* expired or malformed token with 400; in each of these cases no user is
\* looked up and no new token is issued.
C12_RefreshRejections ==
    [][\A cookie \in Cookies :
          RefreshToken(cookie) =>
              LET t == cookie.value IN
              /\ ~cookie.present
                    => resp'.status = 401 /\ RefreshStoppedEarly(resp')
              /\ (cookie.present /\ t.kind = "jwt" /\ ~t.sigok)
                    => resp'.status = 401 /\ RefreshStoppedEarly(resp')
              /\ (cookie.present /\ (t.kind # "jwt" \/ (t.sigok /\ ~(now < t.exp))))
                    => resp'.status = 400 /\ RefreshStoppedEarly(resp')]_vars

(* ------------------------------- C13 ----------------------------------- *)

\* C13: RefreshToken issues a new token only for a cookie token whose
\* signature verified and that has not expired, and the new token carries
\* the UUID of the presented claims, which is the UUID of a stored user;
\* when no user has the UUID the answer is 401 InvalidUser and no token;
\* no refresh response carries a transmission key.
C13_RefreshIssuesForTokenUser ==
    [][\A cookie \in Cookies :
          RefreshToken(cookie) =>
              LET t == cookie.value
                  passed == /\ cookie.present /\ t.kind = "jwt"
                            /\ t.sigok /\ now < t.exp
              IN
              /\ resp'.token # NoToken
                    => /\ passed
                       /\ resp'.token.uuid = t.uuid
                       /\ \E u \in users : u.id = t.uuid /\ u.email = resp'.email
              /\ (passed /\ ~\E u \in users : u.id = t.uuid)
                    => /\ resp'.status = 401
                       /\ resp'.msg = invalidUser
                       /\ resp'.token = NoToken
                       /\ resp'.issue = "none"
              /\ resp'.tkey = FALSE]_vars

\* A refresh issued a token for a stored user, without a transmission key.
C13_Witness ==
    /\ resp.op = "RefreshToken"
    /\ resp.status = 200
    /\ resp.token # NoToken
    /\ \E u \in users : u.id = resp.token.uuid /\ u.email = resp.email
    /\ resp.tkey = FALSE

(* ------------------------------- C14 ----------------------------------- *)

\* The positions of the spaces of a header value.
Spaces(h) == {i \in 1..Len(h) : h[i] = SP}

\* The header value is two parts around one space, the second not empty.
TwoParts(h) == Cardinality(Spaces(h)) = 1 /\ h[Len(h)] # SP

\* The second of the two parts.
SecondPart(h) == SubSeq(h, (CHOOSE i \in Spaces(h) : TRUE) + 1, Len(h))

\* C14: CheckToken answers every Authorization value that does not split on
\* single spaces into exactly two parts (empty, one part, three or more), and
\* every value whose second part is empty, with 401 "Token could not found!",
\* without validating a token or looking up a user; with exactly two parts
\* the second part is what is validated, and when validation fails the answer
\* is 401 "Token is expired or not valid!" and no user is looked up.
C14_BearerHeader ==
    [][\A h \in Headers :
          CheckToken(h) =>
              /\ ~TwoParts(h)
                    => /\ resp'.status = 401
                       /\ resp'.msg = noToken
                       /\ resp'.ulookup = FALSE
              /\ (TwoParts(h) /\ ~TokenValid(SecondPart(h)))
                    => /\ resp'.status = 401
                       /\ resp'.msg = invalidToken
                       /\ resp'.ulookup = FALSE
              /\ (TwoParts(h) /\ TokenValid(SecondPart(h)))
                    => /\ resp'.ulookup = TRUE
                       /\ resp'.msg # noToken
                       /\ resp'.msg # invalidToken]_vars

\* A header was answered as carrying no token.
C14_Witness ==
    /\ resp.op = "CheckToken"
    /\ resp.status = 401
    /\ resp.msg = noToken
    /\ resp.ulookup = FALSE

(* ------------------------------- C15 ----------------------------------- *)

\* C15: the cache slot is keyed by the email alone, so a "verified" marker
\* obtained with a signup code opens RecoverDelete's gate: in runs where no
\* deletion code is ever requested, RecoverDelete for an email whose entry is
\* "verified" is never answered 401, and goes on to delete the email's
\* account when there is one.
C15_SignupCodeOpensDeletion ==
    [][\A e \in Emails :
          (resp'.op = "RecoverDelete" /\ resp'.email = e /\ VerifiedEntry(e))
          => /\ resp'.status # 401
             /\ HasAccount(e) => resp'.store \in {"deleted", "delete failed"}
             /\ resp'.store = "deleted"
                   => users' = {u \in users : u.email # e}]_vars

\* RecoverDelete has deleted an account although the only codes ever issued,
\* and so the only code verified for the email, were signup codes.
C15_Witness ==
    /\ resp.op = "RecoverDelete"
    /\ resp.status = 200
    /\ resp.store = "deleted"
    /\ users = {}
    /\ nextID = 2
    /\ VerifiedEntry(resp.email)

(* ------------------------------- C16 ----------------------------------- *)

\* The step is a handler's c.Set under e: a code request that got as far as
\* its code, or a VerifyCode that matched.
WroteEntry(e) ==
    /\ resp'.email = e
    /\ \/ resp'.op \in {"CreateCode", "CreateDeleteCode"} /\ resp'.mail # "none"
       \/ resp'.op = "VerifyCode" /\ resp'.status = 200

\* The TTL of e's entry has run out, or e has no entry.
Lapsed(e) == e \in DOMAIN c => c[e].exp <= now

\* C16: an entry's expiry is absolute, TTL after its last write. The reads of
\* VerifyCode (on a mismatch), Signup and RecoverDelete leave the cache,
\* expiry times included, as it was; every write (new code, marking verified)
\* sets the expiry to TTL from now; an expiry only changes by a write; and
\* once the TTL has run out the entry counts as gone: VerifyCode answers
\* "Code couldn't found!", Signup and RecoverDelete answer 401 "Email is not
\* verified".
C16_AbsoluteExpiry ==
    [][\A e \in Emails :
          /\ (\/ resp'.op \in {"Signup", "RecoverDelete"}
              \/ resp'.op = "VerifyCode" /\ resp'.status # 200)
                => c' = c
          /\ WroteEntry(e)
                => e \in DOMAIN c' /\ c'[e].exp = now + TTL /\ now' = now
          /\ (e \in DOMAIN c /\ e \in DOMAIN c' /\ c'[e].exp # c[e].exp)
                => WroteEntry(e)
          /\ (Lapsed(e) /\ resp'.email = e)
                => /\ resp'.op = "VerifyCode"
                      => resp'.status = 400 /\ resp'.msg = "Code couldn't found!"
                   /\ resp'.op \in {"Signup", "RecoverDelete"}
                      => resp'.status = 401 /\ resp'.msg = "Email is not verified"]_vars

\* An entry written TTL ago is still in the map, and VerifyCode has just
\* answered that there is no code.
C16_Witness ==
    /\ resp.op = "VerifyCode"
    /\ resp.msg = "Code couldn't found!"
    /\ resp.email \in DOMAIN c
    /\ c[resp.email].exp = now
    /\ now = TTL

(* ------------------------------- C17 ----------------------------------- *)

\* The code requests for e that have stored their code.
CodeWriters(e) ==
    {w \in Workers : /\ procs[w].r.op \in {"CreateCode", "CreateDeleteCode"}
                     /\ procs[w].r.email = e
                     /\ procs[w].wrote > 0}

\* Every worker that has made a c.Set under e.
Writers(e) == {w \in Workers : procs[w].r.email = e /\ procs[w].wrote > 0}

\* The worker whose c.Set under e came last.
LastWriter(e) ==
    CHOOSE w \in Writers(e) : \A v \in Writers(e) : procs[v].wrote <= procs[w].wrote

\* No request is in flight.
AllFinished == \A w \in Workers : procs[w].pc \in {"idle", "done"}

\* C17: when two or more code requests for the same email E have run
\* together and all have finished, the cache holds one entry for E, and, no
\* verification having written after them, its value is the code of the
\* request whose c.Set came last: the codes of the others no longer verify,
\* although each request whose mail went out mailed its own code and
\* answered with success.
C17_LastWriteWins ==
    \A e \in Emails :
        (AllFinished /\ Cardinality(CodeWriters(e)) >= 2)
        => /\ e \in DOMAIN c
           /\ LastWriter(e) \in CodeWriters(e)
                 => c[e].val = procs[LastWriter(e)].r.code
           /\ \A w \in CodeWriters(e) :
                 /\ SixDigits(procs[w].r.code)
                 /\ procs[w].r.mail \in {"sent", "failed"}
                 /\ procs[w].r.mail = "sent"
                       => /\ procs[w].r.status = 200
                          /\ procs[w].r.msg = codeSuccess

\* Two code requests for one email have both mailed their code and answered
\* with success; the cache holds the code of the later writer, and the code
\* of the earlier one is not it.
C17_Witness ==
    \E e \in Emails : \E w, v \in CodeWriters(e) :
        /\ AllFinished
        /\ procs[w].wrote < procs[v].wrote
        /\ procs[w].r.status = 200 /\ procs[v].r.status = 200
        /\ procs[w].r.code # procs[v].r.code
        /\ c[e].val = procs[v].r.code
        /\ procs[w].r.old = <<>>
        /\ procs[v].r.old = procs[w].r.code

(* ------------------------------- C18 ----------------------------------- *)

\* C18: Signup and RecoverDelete never write the cache, so the "verified"
\* marker survives them: it is still live right after a Signup that created
\* the account and right after a RecoverDelete that deleted it, and as long
\* as it is live RecoverDelete passes the gate and deletes the account that
\* exists (store failure aside), and Signup passes the gate, with no new code
\* requested in between.
C18_MarkerNotConsumed ==
    [][\A e \in Emails :
          /\ resp'.op \in {"Signup", "RecoverDelete"} => c' = c
          /\ (resp'.op = "Signup" /\ resp'.email = e /\ resp'.store = "created")
                => VerifiedEntry(e)' /\ HasAccount(e)'
          /\ (resp'.op = "RecoverDelete" /\ resp'.email = e /\ resp'.store = "deleted")
                => VerifiedEntry(e)' /\ ~HasAccount(e)'
          /\ (resp'.op = "RecoverDelete" /\ resp'.email = e
                 /\ VerifiedEntry(e) /\ HasAccount(e))
                => resp'.store \in {"deleted", "delete failed"}
          /\ (resp'.op = "Signup" /\ resp'.email = e /\ VerifiedEntry(e))
                => resp'.status # 401]_vars

\* On a marker written at time 0, an account of the email was created,
\* deleted, and at time 1 created again: the store holds the second account
\* and no other email ever had an entry.
C18_Witness ==
    \E e \in Emails :
        /\ resp.op = "Signup" /\ resp.email = e /\ resp.store = "created"
        /\ now = 1
        /\ DOMAIN c = {e}
        /\ c[e] = [val |-> verified, exp |-> TTL]
        /\ nextID = 3
        /\ \A u \in users : u.id = 2 /\ u.email = e

(* ------------------------------- C19 ----------------------------------- *)

\* C19: under any interleaving of VerifyCode and code requests for the same
\* email, the value that a successful VerifyCode replaces with "verified" is
\* the code that was submitted to it: no code request stores a new code
\* between VerifyCode's c.Get and its c.Set.
C19_VerifyNotOvertaken ==
    \A w \in Workers :
        (procs[w].r.op = "VerifyCode" /\ procs[w].r.status = 200)
        => procs[w].r.old = procs[w].r.code

(* ------------------------------- C20 ----------------------------------- *)

\* C20: every VerifyCode(E, X) that answers success has X equal to a
\* six-digit code that a code request stored for E and that is pending at
\* that moment; submitting the literal "verified" never succeeds, so a
\* marker's expiry is never later than one TTL after a pending code was
\* verified.
C20_OnlyIssuedCodesVerify ==
    [][\A e \in Emails :
          (resp'.op = "VerifyCode" /\ resp'.email = e /\ resp'.status = 200)
          => /\ SixDigits(resp'.code)
             /\ resp'.code # verified
             /\ PendingEntry(e)
             /\ c[e].val = resp'.code]_vars

====
